---- MODULE Spec2Model ----
(***************************************************************************)
(* Parallelization patterns (sectioning.py, voting.py): a fan-out of N     *)
(* concurrent call_ollama coroutines joined by asyncio.gather, followed by *)
(* the section map / newsletter template or by the vote classifier and     *)
(* the plurality tally.                                                    *)
(*                                                                         *)
(* Python strings are sequences of one-character strings.  A Python value  *)
(* is a record [t, v]: t is "str", "int" or "none" and v the characters of *)
(* the string (of the decimal digits for an int).                          *)
(***************************************************************************)
EXTENDS Integers, Sequences, FiniteSets, TLC

\* ------------------------------------------------------------------ bounds
\* Number of times the caller presses the button (asyncio.run cycles).
MaxInvocations == 2
\* Longest probe response, in pieces, handed to the vote classifier alone.
MaxPieces == 3

\* ----------------------------------------------------------------- strings
POSITIVE == <<"P", "O", "S", "I", "T", "I", "V", "E">>
NEGATIVE == <<"N", "E", "G", "A", "T", "I", "V", "E">>
NEUTRAL == <<"N", "E", "U", "T", "R", "A", "L">>
UNABLE_TO_DETERMINE == <<"U", "N", "A", "B", "L", "E", " ", "T", "O", " ", "D", "E", "T", "E", "R", "M", "I", "N", "E">>
ErrorPrefix == <<"E", "r", "r", "o", "r", ":", " ">>
ErrorStatusPrefix == <<"E", "r", "r", "o", "r", ":", " ", "S", "t", "a", "t", "u", "s", " ">>
\* str(AttributeError) when the decoded JSON body is a list: it has no .get
NoGetMessage == <<"'", "l", "i", "s", "t", "'", " ", "o", "b", "j", "e", "c", "t", " ", "h", "a", "s", " ", "n", "o", " ", "a", "t", "t", "r", "i", "b", "u", "t", "e", " ", "'", "g", "e", "t", "'">>

LowerCase == <<"a", "b", "c", "d", "e", "f", "g", "h", "i", "j", "k", "l", "m", "n", "o", "p", "q", "r", "s", "t", "u", "v", "w", "x", "y", "z">>
UpperCase == <<"A", "B", "C", "D", "E", "F", "G", "H", "I", "J", "K", "L", "M", "N", "O", "P", "Q", "R", "S", "T", "U", "V", "W", "X", "Y", "Z">>
Whitespace == {" ", "\n", "\t"}
DigitChar == <<"0", "1", "2", "3", "4", "5", "6", "7", "8", "9">>

\* str(n) for a non-negative integer, as the f-string renders a status code
RECURSIVE Digits(_)
Digits(n) ==
    IF n < 10 THEN <<DigitChar[n + 1]>>
    ELSE Digits(n \div 10) \o <<DigitChar[(n % 10) + 1]>>

UpperChar(c) ==
    IF \E i \in 1..Len(LowerCase) : LowerCase[i] = c
    THEN UpperCase[CHOOSE i \in 1..Len(LowerCase) : LowerCase[i] = c]
    ELSE c

\* str.upper()
Upper(s) == [i \in 1..Len(s) |-> UpperChar(s[i])]

\* str.strip(): what lies between the first and the last character that
\* is not whitespace
Strip(s) ==
    LET solid == {i \in 1..Len(s) : s[i] \notin Whitespace}
    IN IF solid = {} THEN <<>>
       ELSE SubSeq(s, CHOOSE i \in solid : \A j \in solid : i <= j,
                      CHOOSE i \in solid : \A j \in solid : i >= j)

\* sub in s, with == in place of in (a wrong containment test)
ContainsExact(sub, s) == s = sub

\* sub in s
Contains(sub, s) ==
    \E i \in 1..(Len(s) - Len(sub) + 1) : SubSeq(s, i, i + Len(sub) - 1) = sub

\* str.split(): the maximal runs of non-whitespace characters, in order
Split(s) ==
    LET starts == {i \in 1..Len(s) :
                     s[i] \notin Whitespace /\ (i = 1 \/ s[i - 1] \in Whitespace)}
        ends == {i \in 1..Len(s) :
                   s[i] \notin Whitespace /\ (i = Len(s) \/ s[i + 1] \in Whitespace)}
        Nth(S, k) == CHOOSE i \in S : Cardinality({j \in S : j < i}) = k - 1
    IN [k \in 1..Cardinality(starts) |-> SubSeq(s, Nth(starts, k), Nth(ends, k))]

\* ----------------------------------------------------------- Python values
PyStr(s) == [t |-> "str", v |-> s]
PyInt(n) == [t |-> "int", v |-> Digits(n)]
PyNone == [t |-> "none", v |-> <<>>]

\* what an f-string renders for a value
Format(val) ==
    IF val.t = "none" THEN <<"N", "o", "n", "e">> ELSE val.v

\* ------------------------------------------------- the inference endpoint
\* What the endpoint does with one request: a transport fault (post raises
\* an exception whose message is msg), or an HTTP response with a status
\* and, for status 200, a body that is a JSON object (with or without the
\* `response` field), some other JSON value (an array), or not decodable as
\* JSON (json() raises an exception whose message is msg).
Outcome(kind, status, body, has, response, msg) ==
    [kind |-> kind, status |-> status, body |-> body, has |-> has,
     response |-> response, msg |-> msg]

OkResponse(val) == Outcome("http", 200, "object", TRUE, val, <<>>)
OkNoField == Outcome("http", 200, "object", FALSE, PyNone, <<>>)
OkArray == Outcome("http", 200, "array", FALSE, PyNone, <<>>)
OkNotJson(msg) == Outcome("http", 200, "notjson", FALSE, PyNone, msg)
StatusOnly(code) == Outcome("http", code, "none", FALSE, PyNone, <<>>)
TransportFault(msg) == Outcome("fault", 0, "none", FALSE, PyNone, msg)
NoOutcome == Outcome("none", 0, "none", FALSE, PyNone, <<>>)

s_positive_please == <<"p", "o", "s", "i", "t", "i", "v", "e", " ", "p", "l", "e", "a", "s", "e">>
s_maybe == <<"m", "a", "y", "b", "e">>
s_neutral_padded == <<" ", "N", "e", "u", "t", "r", "a", "l", "\n">>
s_mixed == <<"n", "o", "t", " ", "n", "e", "g", "a", "t", "i", "v", "e", ",", " ", "p", "o", "s", "i", "t", "i", "v", "e">>
msg_refused == <<"C", "a", "n", "n", "o", "t", " ", "c", "o", "n", "n", "e", "c", "t", " ", "t", "o", " ", "h", "o", "s", "t", " ", "l", "o", "c", "a", "l", "h", "o", "s", "t", ":", "1", "1", "4", "3", "4">>
msg_bad_status == <<"B", "a", "d", " ", "s", "t", "a", "t", "u", "s", " ", "l", "i", "n", "e", " ", "'", "p", "o", "s", "i", "t", "i", "v", "e", "'">>
msg_decode == <<"E", "x", "p", "e", "c", "t", "i", "n", "g", " ", "v", "a", "l", "u", "e">>

\* The endpoint behaviours a sentiment call is exposed to.
VoteOutcomes ==
    { OkResponse(PyStr(POSITIVE)), OkResponse(PyStr(s_positive_please)),
      OkResponse(PyStr(NEGATIVE)), OkResponse(PyStr(s_maybe)),
      OkResponse(PyStr(s_neutral_padded)), OkResponse(PyStr(s_mixed)),
      OkResponse(PyStr(<<>>)), OkResponse(PyInt(5)),
      OkNoField, OkArray, OkNotJson(msg_decode),
      StatusOnly(404), StatusOnly(500), TransportFault(msg_refused),
      TransportFault(msg_bad_status) }

\* The endpoint behaviours the section call for the i-th prompt is exposed
\* to: the mocked text "R<i>", a non-200 status, a refused connection.
SectionOutcomes(i) ==
    { OkResponse(PyStr(<<"R">> \o Digits(i))), StatusOnly(404),
      TransportFault(msg_refused) }

\* ------------------------------------------------------------- call_ollama
Returned(val) == [raised |-> FALSE, value |-> val]
Raised == [raised |-> TRUE, value |-> PyNone]
NoResult == [raised |-> FALSE, value |-> [t |-> "pending", v |-> <<>>]]

\* call_ollama with the except clause letting the exception through
call_ollama_propagate(o) ==
    IF o.kind = "fault" THEN Raised
    ELSE IF o.status = 200
         THEN IF o.body = "notjson" THEN Raised
              ELSE IF o.body = "array" THEN Raised
              ELSE IF o.has THEN Returned(o.response)
              ELSE Returned(PyStr(<<>>))
         ELSE Returned(PyStr(ErrorStatusPrefix \o Digits(o.status)))

\* call_ollama answering a non-200 status like a success
call_ollama_nostatus(o) ==
    IF o.kind = "fault" THEN Returned(PyStr(ErrorPrefix \o o.msg))
    ELSE IF o.body = "notjson" THEN Returned(PyStr(ErrorPrefix \o o.msg))
    ELSE IF o.body = "array" THEN Returned(PyStr(ErrorPrefix \o NoGetMessage))
    ELSE IF o.has THEN Returned(o.response)
    ELSE Returned(PyStr(<<>>))

\* The value one call returns for the outcome o of its single request.
call_ollama(o) ==
    IF o.kind = "fault"
    THEN Returned(PyStr(ErrorPrefix \o o.msg))
    ELSE IF o.status = 200
         THEN IF o.body = "notjson"
              THEN Returned(PyStr(ErrorPrefix \o o.msg))
              ELSE IF o.body = "array"
                   THEN Returned(PyStr(ErrorPrefix \o NoGetMessage))
                   ELSE IF o.has THEN Returned(o.response)
                        ELSE Returned(PyStr(<<>>))
         ELSE Returned(PyStr(ErrorStatusPrefix \o Digits(o.status)))

\* ---------------------------------------------------- Python dict (ordered)
\* A dict is the sequence of its <<key, value>> items in insertion order.
DictHas(d, k) == \E i \in 1..Len(d) : d[i][1] = k
DictGet(d, k, default) ==
    IF DictHas(d, k) THEN d[CHOOSE i \in 1..Len(d) : d[i][1] = k][2]
    ELSE default
DictSet(d, k, val) ==
    IF DictHas(d, k)
    THEN [i \in 1..Len(d) |-> IF d[i][1] = k THEN <<k, val>> ELSE d[i]]
    ELSE Append(d, <<k, val>>)

\* ------------------------------------------------------ the vote classifier
\* The if/elif chain with NEGATIVE tested before POSITIVE
ClassifyResponseSwapped(sa_votes, sa_response) ==
    LET sa_sentiment == Upper(Strip(sa_response))
        words == Split(sa_sentiment)
        first_word == IF sa_sentiment # <<>> THEN words[1] ELSE <<>>
    IN IF Contains(NEGATIVE, sa_sentiment) THEN Append(sa_votes, NEGATIVE)
       ELSE IF Contains(POSITIVE, sa_sentiment) THEN Append(sa_votes, POSITIVE)
       ELSE IF Contains(NEUTRAL, sa_sentiment) THEN Append(sa_votes, NEUTRAL)
       ELSE IF first_word \in {POSITIVE, NEGATIVE, NEUTRAL}
            THEN Append(sa_votes, first_word)
            ELSE sa_votes

\* One pass of the loop body over a string response: sa_votes afterwards.
ClassifyResponse(sa_votes, sa_response) ==
    LET sa_sentiment == Upper(Strip(sa_response))
        words == Split(sa_sentiment)
        first_word == IF sa_sentiment # <<>> THEN words[1] ELSE <<>>
    IN IF Contains(POSITIVE, sa_sentiment) THEN Append(sa_votes, POSITIVE)
       ELSE IF Contains(NEGATIVE, sa_sentiment) THEN Append(sa_votes, NEGATIVE)
       ELSE IF Contains(NEUTRAL, sa_sentiment) THEN Append(sa_votes, NEUTRAL)
       ELSE IF first_word \in {POSITIVE, NEGATIVE, NEUTRAL}
            THEN Append(sa_votes, first_word)
            ELSE sa_votes

\* The classification loop from the k-th response on.
RECURSIVE ClassifyLoop(_, _, _)
ClassifyLoop(resps, k, sa_votes) ==
    IF k > Len(resps) THEN sa_votes
    ELSE ClassifyLoop(resps, k + 1, ClassifyResponse(sa_votes, resps[k].v))

\* The tally loop: sa_vote_counts after the votes from the k-th on.
RECURSIVE CountVotes(_, _, _)
CountVotes(sa_votes, k, sa_vote_counts) ==
    IF k > Len(sa_votes) THEN sa_vote_counts
    ELSE CountVotes(sa_votes, k + 1,
            DictSet(sa_vote_counts, sa_votes[k],
                    DictGet(sa_vote_counts, sa_votes[k], 0) + 1))

\* max() keeping the last of the maximal items
RECURSIVE MaxItemLast(_, _, _)
MaxItemLast(items, k, best) ==
    IF k > Len(items) THEN best
    ELSE MaxItemLast(items, k + 1,
                     IF items[k][2] >= best[2] THEN items[k] ELSE best)

\* max(items, key=count): the first of the maximal items in iteration order.
RECURSIVE MaxItem(_, _, _)
MaxItem(items, k, best) ==
    IF k > Len(items) THEN best
    ELSE MaxItem(items, k + 1,
                 IF items[k][2] > best[2] THEN items[k] ELSE best)

\* winner of a non-empty vote list
Winner(sa_votes) ==
    LET sa_vote_counts == CountVotes(sa_votes, 1, <<>>)
    IN MaxItem(sa_vote_counts, 2, sa_vote_counts[1])[1]

\* ------------------------------------------------------------ the prompts
\* SECTION_PROMPTS: the section labels in the dict's (insertion) order.
SECTION_PROMPTS ==
    <<"headlines", "technical_deep_dive", "industry_news", "tools_resources",
      "opinion_analysis">>

\* SENTIMENT_PROMPTS: the three prompt templates in list order.
SENTIMENT_PROMPTS == <<"analyze_sentiment", "emotional_tone", "classify">>

\* format_newsletter's placeholder for each slot of the template.
Placeholders ==
    <<<<"N", "o", " ", "h", "e", "a", "d", "l", "i", "n", "e", "s", " ", "g", "e", "n", "e", "r", "a", "t", "e", "d", ".">>,
      <<"N", "o", " ", "t", "e", "c", "h", "n", "i", "c", "a", "l", " ", "c", "o", "n", "t", "e", "n", "t", " ", "g", "e", "n", "e", "r", "a", "t", "e", "d", ".">>,
      <<"N", "o", " ", "i", "n", "d", "u", "s", "t", "r", "y", " ", "n", "e", "w", "s", " ", "g", "e", "n", "e", "r", "a", "t", "e", "d", ".">>,
      <<"N", "o", " ", "t", "o", "o", "l", "s", "/", "r", "e", "s", "o", "u", "r", "c", "e", "s", " ", "g", "e", "n", "e", "r", "a", "t", "e", "d", ".">>,
      <<"N", "o", " ", "a", "n", "a", "l", "y", "s", "i", "s", " ", "g", "e", "n", "e", "r", "a", "t", "e", "d", ".">>>>

\* --------------------------------------------------------------- the state
VARIABLES
    mode,           \* which script runs: "sectioning" or "voting"
    pc,             \* where the caller's coroutine stands
    invocation,     \* number of asyncio.run cycles started so far
    session,        \* the ClientSession of the current cycle (0: none yet)
    open,           \* the ClientSessions that are open
    tasks,          \* the call_ollama coroutines handed to gather
    section_names,  \* generate_newsletter_sections: labels, in task order
    arrival,        \* task indices in the order the calls settled
    responses,      \* what gather returned
    results,        \* generate_newsletter_sections: label -> response
    newsletter,     \* format_newsletter: the slots of the document
    sa_votes,       \* analyze_sentiment_voting: the classified votes
    winner,         \* analyze_sentiment_voting: the returned winner
    probe           \* a single response handed to the classifier alone

vars == <<mode, pc, invocation, session, open, tasks, section_names, arrival,
          responses, results, newsletter, sa_votes, winner, probe>>

NoProbe == [response |-> <<>>, votes |-> <<>>, done |-> FALSE]

Prompts == IF mode = "sectioning" THEN SECTION_PROMPTS ELSE SENTIMENT_PROMPTS

OutcomesFor(i) == IF mode = "sectioning" THEN SectionOutcomes(i) ELSE VoteOutcomes

\* A coroutine object call_ollama(session, prompt) that has not run yet.
NewTask(sid, prompt) ==
    [prompt |-> prompt, session |-> sid, state |-> "created", requests |-> 0,
     outcome |-> NoOutcome, result |-> NoResult]

\* gather resuming its awaiter as soon as one call has settled
AnySettled == \E i \in 1..Len(tasks) : tasks[i].state = "settled"

\* gather's join condition: every awaitable is done.
AllSettled == \A i \in 1..Len(tasks) : tasks[i].state = "settled"

AnyRaised ==
    \E i \in 1..Len(tasks) : tasks[i].state = "settled" /\ tasks[i].result.raised

\* results listed in completion order
GatherResultsAsCompleted(ts, arr) ==
    [k \in 1..Len(arr) |-> ts[arr[k]].result.value]

\* gather's result list: one entry per awaitable, in the awaitables' order.
GatherResults(ts, arr) == [i \in 1..Len(ts) |-> ts[i].result.value]

\* leaving the async with block without closing the session
CloseSessionLeak(opn, sid) == opn

\* leaving the async with block (by return or by exception)
CloseSession(opn, sid) == opn \ {sid}

\* dict built by the zip loop over (section_names, responses)
RECURSIVE ZipResults(_, _, _, _)
ZipResults(names, resps, k, acc) ==
    IF k > Len(names) \/ k > Len(resps) THEN acc
    ELSE ZipResults(names, resps, k + 1, DictSet(acc, names[k], resps[k]))

Init ==
    /\ mode \in {"sectioning", "voting"}
    /\ pc = "idle"
    /\ invocation = 0
    /\ session = 0
    /\ open = {}
    /\ tasks = <<>>
    /\ section_names = <<>>
    /\ arrival = <<>>
    /\ responses = <<>>
    /\ results = <<>>
    /\ newsletter = <<>>
    /\ sa_votes = <<>>
    /\ winner = <<>>
    /\ probe = NoProbe

\* The caller runs the pipeline (asyncio.run): the coroutine starts with
\* fresh locals and enters `async with aiohttp.ClientSession() as session`.
Invoke ==
    /\ \/ pc \in {"idle", "raised"}
       \/ pc = "returned" /\ mode = "voting"
       \/ pc = "formatted"
    /\ invocation < MaxInvocations
    /\ invocation' = invocation + 1
    /\ session' = invocation + 1
    /\ open' = open \cup {invocation + 1}
    /\ pc' = "entered"
    /\ tasks' = <<>>
    /\ section_names' = <<>>
    /\ arrival' = <<>>
    /\ responses' = <<>>
    /\ results' = <<>>
    /\ newsletter' = <<>>
    /\ sa_votes' = <<>>
    /\ winner' = <<>>
    /\ UNCHANGED <<mode, probe>>

\* The loop over the prompts (no suspension point in it) and the call of
\* asyncio.gather(*tasks), which suspends the caller.
Dispatch ==
    /\ pc = "entered"
    /\ tasks' = [i \in 1..Len(Prompts) |-> NewTask(session, Prompts[i])]
    /\ section_names' = IF mode = "sectioning" THEN SECTION_PROMPTS ELSE <<>>
    /\ pc' = "gathering"
    /\ UNCHANGED <<mode, invocation, session, open, arrival, responses,
                   results, newsletter, sa_votes, winner, probe>>

\* The i-th coroutine runs up to session.post: its one request goes out.
Start(i) ==
    /\ pc = "gathering"
    /\ tasks[i].state = "created"
    /\ tasks[i].session \in open
    /\ tasks' = [tasks EXCEPT ![i].state = "requested",
                              ![i].requests = tasks[i].requests + 1]
    /\ UNCHANGED <<mode, pc, invocation, session, open, section_names,
                   arrival, responses, results, newsletter, sa_votes, winner,
                   probe>>

\* The endpoint answers (or the transport fails) and the i-th call returns.
Settle(i) ==
    /\ pc = "gathering"
    /\ tasks[i].state = "requested"
    /\ \E o \in OutcomesFor(i) :
          tasks' = [tasks EXCEPT ![i].state = "settled",
                                 ![i].outcome = o,
                                 ![i].result = call_ollama(o)]
    /\ arrival' = Append(arrival, i)
    /\ UNCHANGED <<mode, pc, invocation, session, open, section_names,
                   responses, results, newsletter, sa_votes, winner, probe>>

\* `responses = await asyncio.gather(*tasks)` resumes the caller: with the
\* list of results once every call is done, or with the exception of a call
\* that raised (which then leaves the async with block).
Gather ==
    /\ pc = "gathering"
    /\ AllSettled \/ AnyRaised
    /\ IF AnyRaised
       THEN /\ pc' = "raised"
            /\ open' = CloseSession(open, session)
            /\ UNCHANGED responses
       ELSE /\ pc' = "joined"
            /\ responses' = GatherResults(tasks, arrival)
            /\ UNCHANGED open
    /\ UNCHANGED <<mode, invocation, session, tasks, section_names, arrival,
                   results, newsletter, sa_votes, winner, probe>>

\* generate_newsletter_sections after the join: the zip loop, the return
\* and the exit of the async with block.
CombineSections ==
    /\ pc = "joined"
    /\ mode = "sectioning"
    /\ results' = ZipResults(section_names, responses, 1, <<>>)
    /\ open' = CloseSession(open, session)
    /\ pc' = "returned"
    /\ UNCHANGED <<mode, invocation, session, tasks, section_names, arrival,
                   responses, newsletter, sa_votes, winner, probe>>

\* format_newsletter(topic, sections): each slot of the template takes the
\* section's text, or the placeholder when the label is missing.
format_newsletter ==
    /\ pc = "returned"
    /\ mode = "sectioning"
    /\ newsletter' =
          [k \in 1..Len(SECTION_PROMPTS) |->
              Format(DictGet(results, SECTION_PROMPTS[k], PyStr(Placeholders[k])))]
    /\ pc' = "formatted"
    /\ UNCHANGED <<mode, invocation, session, open, tasks, section_names,
                   arrival, responses, results, sa_votes, winner, probe>>

\* analyze_sentiment_voting after the join: the classification loop (where
\* .strip() on a response that is not a str raises AttributeError), the
\* tally, the return and the exit of the async with block.
CountAndVote ==
    /\ pc = "joined"
    /\ mode = "voting"
    /\ open' = CloseSession(open, session)
    /\ IF \E i \in 1..Len(responses) : responses[i].t # "str"
       THEN /\ pc' = "raised"
            /\ UNCHANGED <<sa_votes, winner>>
       ELSE /\ pc' = "returned"
            /\ sa_votes' = ClassifyLoop(responses, 1, <<>>)
            /\ winner' = IF sa_votes' # <<>> THEN Winner(sa_votes')
                         ELSE UNABLE_TO_DETERMINE
    /\ UNCHANGED <<mode, invocation, session, tasks, section_names, arrival,
                   responses, results, newsletter, probe>>

Next ==
    \/ Invoke
    \/ Dispatch
    \/ \E i \in 1..Len(tasks) : Start(i)
    \/ \E i \in 1..Len(tasks) : Settle(i)
    \/ Gather
    \/ CombineSections
    \/ format_newsletter
    \/ CountAndVote

Spec == Init /\ [][Next]_vars

\* The event loop runs every callback that is ready: once the calls are
\* done, the coroutine awaiting gather is resumed.
FairSpec == Spec /\ WF_vars(Gather)

\* ------------------------------------------- the classifier on its own
Pieces ==
    { <<"p", "o", "s", "i", "t", "i", "v", "e">>, <<"N", "E", "G", "A", "T", "I", "V", "E">>, <<"N", "e", "u", "t", "r", "a", "l">>, <<"P", "O", "S", "I">>, <<"T", "I", "V", "E">>, <<" ">>, <<"\n">>, <<"x">> }

\* Every concatenation of at most n pieces.
RECURSIVE Concats(_)
Concats(n) ==
    IF n = 0 THEN {<<>>}
    ELSE LET shorter == Concats(n - 1)
         IN shorter \cup {p \o x : p \in shorter, x \in Pieces}

ProbeResponses == Concats(MaxPieces)

ProbeInit ==
    /\ mode = "voting"
    /\ pc = "idle"
    /\ invocation = 0
    /\ session = 0
    /\ open = {}
    /\ tasks = <<>>
    /\ section_names = <<>>
    /\ arrival = <<>>
    /\ responses = <<>>
    /\ results = <<>>
    /\ newsletter = <<>>
    /\ sa_votes = <<>>
    /\ winner = <<>>
    /\ probe \in {[response |-> r, votes |-> <<>>, done |-> FALSE] :
                    r \in ProbeResponses}

\* One pass of the classification loop body over the probe response.
ProbeClassify ==
    /\ ~probe.done
    /\ probe' = [probe EXCEPT !.votes = ClassifyResponse(<<>>, probe.response),
                              !.done = TRUE]
    /\ UNCHANGED <<mode, pc, invocation, session, open, tasks, section_names,
                   arrival, responses, results, newsletter, sa_votes, winner>>

ProbeNext == ProbeClassify

ProbeSpec == ProbeInit /\ [][ProbeNext]_vars

\* ================================================================ properties
Labels == {POSITIVE, NEGATIVE, NEUTRAL}
PastJoin == pc \in {"joined", "returned", "formatted", "raised"}
Exited == pc \in {"returned", "formatted", "raised"}
IsSettled(i) == tasks[i].state = "settled"
\* the i-th call failed: a transport fault or a status other than 200
Failed(i) ==
    /\ IsSettled(i)
    /\ \/ tasks[i].outcome.kind = "fault"
       \/ tasks[i].outcome.kind = "http" /\ tasks[i].outcome.status # 200
\* the i-th call got a JSON object carrying a `response` field
Succeeded(i) ==
    /\ IsSettled(i)
    /\ tasks[i].outcome.kind = "http"
    /\ tasks[i].outcome.status = 200
    /\ tasks[i].outcome.body = "object"
    /\ tasks[i].outcome.has
IsErrorString(val) ==
    /\ val.t = "str"
    /\ Len(val.v) >= Len(ErrorPrefix)
    /\ SubSeq(val.v, 1, Len(ErrorPrefix)) = ErrorPrefix
InOrder(seq) == \A k \in 1..Len(seq) : seq[k] = k
VotingReturned == mode = "voting" /\ pc = "returned"

\* C1: the fan-out yields exactly N results (5 sections, 3 votes) and the
\* i-th result is what the call for the i-th prompt returned, whatever the
\* order in which the calls settled and whichever of them failed; the
\* section map has each of the five labels exactly once, each mapped to the
\* result of its own prompt.
C1_InputOrder ==
    /\ (PastJoin =>
          /\ Len(responses) = (IF mode = "sectioning" THEN 5 ELSE 3)
          /\ Len(responses) = Len(Prompts)
          /\ \A i \in 1..Len(responses) :
                /\ tasks[i].prompt = Prompts[i]
                /\ responses[i] = tasks[i].result.value)
    /\ (mode = "sectioning" /\ pc \in {"returned", "formatted"} =>
          /\ Len(results) = 5
          /\ \A k \in 1..5 :
                results[k] = <<SECTION_PROMPTS[k], tasks[k].result.value>>)

\* C1 witness: the last prompt's call settled first, the first one failed,
\* and the section map came out.
C1_Witness ==
    /\ mode = "sectioning"
    /\ pc = "returned"
    /\ arrival[1] = 5
    /\ arrival[5] = 1
    /\ Failed(1)
    /\ Succeeded(5)

\* C2: a failed call never aborts a sibling or the fan-out: past the join
\* every call has issued its request and settled, none has raised, every
\* successful call's slot holds the text its own request got, and a failed
\* call's slot (and section, and document slot) holds its error string.
C2_FailureIsolated ==
    (\E i \in 1..Len(tasks) : Failed(i)) =>
       /\ pc = "raised" => responses # <<>>
       /\ PastJoin =>
             \A j \in 1..Len(tasks) :
                /\ IsSettled(j)
                /\ tasks[j].requests = 1
                /\ ~tasks[j].result.raised
                /\ Succeeded(j) => responses[j] = tasks[j].outcome.response
                /\ Failed(j) => IsErrorString(responses[j])
       /\ (mode = "sectioning" /\ pc \in {"returned", "formatted"} =>
             \A j \in 1..Len(tasks) :
                /\ Succeeded(j) =>
                      results[j] = <<SECTION_PROMPTS[j], tasks[j].outcome.response>>
                /\ Failed(j) =>
                      /\ results[j][1] = SECTION_PROMPTS[j]
                      /\ IsErrorString(results[j][2]))
       /\ (pc = "formatted" =>
             \A j \in 1..Len(tasks) :
                /\ Succeeded(j) => newsletter[j] = tasks[j].outcome.response.v
                /\ Failed(j) => IsErrorString(PyStr(newsletter[j])))

\* C2 witness: the technical deep dive failed first, the other four
\* sections were generated afterwards and the document was formatted.
C2_Witness ==
    /\ pc = "formatted"
    /\ arrival[1] = 2
    /\ Failed(2)
    /\ \A j \in {1, 3, 4, 5} : Succeeded(j)
    /\ newsletter[2] = <<"E", "r", "r", "o", "r", ":", " ", "S", "t", "a", "t", "u", "s", " ", "4", "0", "4">>
    /\ newsletter[5] = <<"R", "5">>

\* C3: the join is all-or-nothing: the caller is past the gather, and any
\* aggregate (section map, votes, winner, document) exists, only when every
\* one of the N dispatched calls has settled; and once every call has
\* settled the gather returns.
C3_AllSettledHere ==
    /\ Len(tasks) = Len(Prompts)
    /\ \A i \in 1..Len(tasks) : tasks[i].state = "settled"

C3_JoinAll ==
    /\ [](PastJoin => C3_AllSettledHere)
    /\ [](responses # <<>> \/ results # <<>> \/ newsletter # <<>>
            \/ sa_votes # <<>> \/ winner # <<>>  => C3_AllSettledHere)
    /\ ((pc = "gathering" /\ C3_AllSettledHere) ~> PastJoin)

\* C3 witness: the gather has just returned, after at least one failure.
C3_Witness ==
    /\ pc = "joined"
    /\ C3_AllSettledHere
    /\ Failed(arrival[1])
    /\ Len(responses) = Len(tasks)

\* C4: nothing is fatal: no pipeline ever ends with a raised exception.
C4_NothingFatal == pc # "raised"

\* C5: the winner is decided by the votes alone: with votes, a label of
\* maximal count and, among those, of earliest first occurrence; without
\* votes, the sentinel; and the sentinel in no other case.
C5_Count(label) == Cardinality({i \in 1..Len(sa_votes) : sa_votes[i] = label})
C5_First(label) == CHOOSE i \in 1..Len(sa_votes) :
                      /\ sa_votes[i] = label
                      /\ \A j \in 1..(i - 1) : sa_votes[j] # label

C5_WinnerRule ==
    VotingReturned =>
       /\ (sa_votes # <<>> =>
             /\ \E i \in 1..Len(sa_votes) : sa_votes[i] = winner
             /\ \A i \in 1..Len(sa_votes) :
                   /\ C5_Count(sa_votes[i]) <= C5_Count(winner)
                   /\ C5_Count(sa_votes[i]) = C5_Count(winner) =>
                         C5_First(winner) <= C5_First(sa_votes[i]))
       /\ (sa_votes = <<>> => winner = UNABLE_TO_DETERMINE)
       /\ (winner = UNABLE_TO_DETERMINE => sa_votes = <<>>)

\* C5 witness: a 1-1-1 tie won by the label of the first response, which
\* is not the first label in priority order.
C5_Witness ==
    /\ VotingReturned
    /\ sa_votes = <<NEGATIVE, NEUTRAL, POSITIVE>>
    /\ winner = NEGATIVE

\* C6: the votes are, in prompt order, the labels of the classifiable
\* responses: each response, trimmed and uppercased, gives the first of
\* POSITIVE, NEGATIVE, NEUTRAL occurring in it, once; a response in which
\* none occurs gives no vote; there are never more than 3 votes.
C6_Occurs(label, str) ==
    \E a \in 0..Len(str) : \E b \in a..Len(str) : SubSeq(str, a + 1, b) = label

C6_VoteOf(response) ==
    LET u == Upper(Strip(response))
    IN IF C6_Occurs(POSITIVE, u) THEN <<POSITIVE>>
       ELSE IF C6_Occurs(NEGATIVE, u) THEN <<NEGATIVE>>
       ELSE IF C6_Occurs(NEUTRAL, u) THEN <<NEUTRAL>>
       ELSE <<>>

C6_RawVotes ==
    VotingReturned =>
       /\ sa_votes = C6_VoteOf(responses[1].v) \o C6_VoteOf(responses[2].v)
                        \o C6_VoteOf(responses[3].v)
       /\ Len(sa_votes) <= 3

\* C6 witness: a response with two tokens counted once under POSITIVE, an
\* unclassifiable one dropped, a padded lower-case one counted.
C6_Witness ==
    /\ VotingReturned
    /\ responses = <<PyStr(s_mixed), PyStr(s_maybe), PyStr(s_neutral_padded)>>
    /\ sa_votes = <<POSITIVE, NEUTRAL>>

\* C7: an error string of the inference client never counts as a vote:
\* when all three calls failed the winner is the sentinel and there are no
\* votes.
C7_ErrorsNeverVote ==
    (VotingReturned /\ \A i \in 1..3 : Failed(i)) =>
       /\ winner = UNABLE_TO_DETERMINE
       /\ sa_votes = <<>>

\* C8 (as stated): one request per call, no fault propagated, and the value
\* fixed by the outcome: status 200 gives the `response` field or "" when
\* the field is absent, another status "Error: Status {code}", a transport
\* fault a string that begins with "Error: ".
C8_Common(i) ==
    /\ tasks[i].requests = 1
    /\ ~tasks[i].result.raised
    /\ (tasks[i].outcome.kind = "http" /\ tasks[i].outcome.status = 404 =>
          tasks[i].result.value = PyStr(<<"E", "r", "r", "o", "r", ":", " ", "S", "t", "a", "t", "u", "s", " ", "4", "0", "4">>))
    /\ (tasks[i].outcome.kind = "http" /\ tasks[i].outcome.status = 500 =>
          tasks[i].result.value = PyStr(<<"E", "r", "r", "o", "r", ":", " ", "S", "t", "a", "t", "u", "s", " ", "5", "0", "0">>))
    /\ (tasks[i].outcome.kind = "fault" => IsErrorString(tasks[i].result.value))

C8_AsStated ==
    \A i \in 1..Len(tasks) :
       IsSettled(i) =>
          /\ C8_Common(i)
          /\ (tasks[i].outcome.kind = "http" /\ tasks[i].outcome.status = 200 =>
                tasks[i].result.value =
                   (IF tasks[i].outcome.body = "object" /\ tasks[i].outcome.has
                    THEN tasks[i].outcome.response ELSE PyStr(<<>>)))

\* C8 (amended): as stated, but status 200 gives the `response` field or ""
\* only when the body is a JSON object; a status-200 body that is not a
\* JSON object gives a string that begins with "Error: ".
C8_CallContract ==
    \A i \in 1..Len(tasks) :
       IsSettled(i) =>
          /\ C8_Common(i)
          /\ (tasks[i].outcome.kind = "http" /\ tasks[i].outcome.status = 200 =>
                IF tasks[i].outcome.body = "object"
                THEN tasks[i].result.value =
                        (IF tasks[i].outcome.has THEN tasks[i].outcome.response
                         ELSE PyStr(<<>>))
                ELSE IsErrorString(tasks[i].result.value))

\* C8 witness: three settled calls: a 404, a body without the field, a
\* body that is not JSON.
C8_Witness ==
    /\ mode = "voting"
    /\ pc = "gathering"
    /\ \A i \in 1..3 : IsSettled(i)
    /\ tasks[1].outcome = StatusOnly(404)
    /\ tasks[1].result.value = PyStr(<<"E", "r", "r", "o", "r", ":", " ", "S", "t", "a", "t", "u", "s", " ", "4", "0", "4">>)
    /\ tasks[2].outcome = OkNoField
    /\ tasks[2].result.value = PyStr(<<>>)
    /\ tasks[3].outcome = OkNotJson(msg_decode)

\* C9: one session per fan-out: opened before any call is dispatched, used
\* by all calls of this invocation and by no other, open while any
\* dispatched call is unsettled, closed once the pipeline has returned or
\* raised.
C9_SessionScoped ==
    /\ Cardinality(open) <= 1
    /\ (pc = "entered" => session \in open /\ tasks = <<>>)
    /\ \A i \in 1..Len(tasks) :
          /\ tasks[i].session = session
          /\ tasks[i].session = invocation
          /\ (~IsSettled(i) => tasks[i].session \in open)
    /\ (pc = "gathering" => session \in open)
    /\ (Exited => session \notin open /\ open = {})

\* C9 witness: the second invocation ended by an exception after a failed
\* call, and its session is closed.
C9_Witness ==
    /\ pc = "raised"
    /\ invocation = 2
    /\ session = 2
    /\ open = {}
    /\ \E i \in 1..Len(tasks) : Failed(i)

\* C10: the first-word fallback never adds a vote: the classifier's answer
\* for a response is the answer of the three containment tests alone.
C10_ContainmentOnly(sa_response) ==
    LET sa_sentiment == Upper(Strip(sa_response))
    IN IF Contains(POSITIVE, sa_sentiment) THEN <<POSITIVE>>
       ELSE IF Contains(NEGATIVE, sa_sentiment) THEN <<NEGATIVE>>
       ELSE IF Contains(NEUTRAL, sa_sentiment) THEN <<NEUTRAL>>
       ELSE <<>>

C10_FallbackAddsNothing ==
    probe.done => probe.votes = C10_ContainmentOnly(probe.response)

\* C10 witness: a classified response whose first token is a label but
\* which is more than that label.
C10_Witness ==
    /\ probe.done
    /\ probe.votes = <<NEGATIVE>>
    /\ Split(Upper(Strip(probe.response)))[1] = NEGATIVE
    /\ Len(Split(Upper(Strip(probe.response)))) = 2

====
